---- MODULE Spec2Model ----
(***************************************************************************)
(* Model of src/agent.py: the per-room entry point voice_agent_session,    *)
(* the two control-plane helpers fetch_agent_config and end_session, and   *)
(* the transcript relay on_transcript with the publish tasks it spawns.    *)
(*                                                                         *)
(* One session coroutine is modelled.  pc is its position; at the awaits   *)
(* GREET and SLEEP, and after the coroutine has finished, the event loop   *)
(* may run transcript handlers and publish tasks.                          *)
(***************************************************************************)
EXTENDS Integers, Sequences, FiniteSets, TLC

\* Bound on the number of transcript events the pipeline emits.
MaxEvents == 2

\* Python's None, and the marker of a key that a JSON object does not have.
None == "None"
Absent == "<absent>"

\* The test "v is not None" in place of bool(v).
IsNotNone(v) == v \notin {None, Absent}

\* The guard as it would be if the call it protects were unconditional.
Unguarded(v) == TRUE

\* bool(v) of a string-or-None value
Truthy(v) == v \notin {None, "", Absent}

-----------------------------------------------------------------------------
(* Metadata: ctx.room.metadata / ctx.job.metadata and json.loads           *)

MetaObject(a, s) == [agentId |-> a, sessionId |-> s]
EmptyObject == MetaObject(Absent, Absent)

RawEmpty == [form |-> "empty", obj |-> EmptyObject]
RawMalformed == [form |-> "malformed", obj |-> EmptyObject]
RawArray == [form |-> "nonobject", obj |-> EmptyObject]
RawObject(o) == [form |-> "object", obj |-> o]

RoomMetadata ==
    {RawEmpty, RawMalformed, RawArray}
        \cup {RawObject(MetaObject(a, s)) :
                a \in {Absent, "", "a1"}, s \in {Absent, "", "s1"}}

JobMetadata == {RawEmpty, RawMalformed, RawObject(MetaObject("a2", "s2"))}

\* line 60: ctx.room.metadata or ctx.job.metadata or "{}"
MetadataRaw(room, job) ==
    IF room.form # "empty" THEN room
    ELSE IF job.form # "empty" THEN job
    ELSE RawObject(EmptyObject)

\* json.loads: raises JSONDecodeError on text that is not JSON, returns the
\* decoded value otherwise; the value is a dict only for a JSON object.
JsonLoads(raw) ==
    IF raw.form \in {"malformed", "empty"}
    THEN [err |-> "JSONDecodeError", isDict |-> FALSE, obj |-> EmptyObject]
    ELSE [err |-> None, isDict |-> raw.form = "object", obj |-> raw.obj]

\* dict.get(key) / dict.get(key, default)
DictGet(d, k, default) == IF d[k] = Absent THEN default ELSE d[k]

-----------------------------------------------------------------------------
(* Agent configuration as returned by the backend                           *)

RequiredKeys == {"name", "sarvam_api_key", "llm_api_key",
                 "stt_language_code", "tts_language_code", "system_prompt"}
OptionalKeys == {"tts_voice", "llm_model", "welcome_message"}
ConfigKeys == RequiredKeys \cup OptionalKeys

VoiceCatalog == {"anushka", "manisha", "vidya", "arya", "abhilash", "karun", "hitesh"}
DefaultVoice == "anushka"
DefaultModel == "gemini-2.5-flash"
DefaultWelcome == "Hello! How can I help you?"

FullDict ==
    [kind |-> "dict", name |-> "agent", sarvam_api_key |-> "sk", llm_api_key |-> "lk",
     stt_language_code |-> "hi-IN", tts_language_code |-> "hi-IN",
     system_prompt |-> "prompt", tts_voice |-> "karun", llm_model |-> "gemini-x",
     welcome_message |-> "Namaste"]

Without(d, k) == [d EXCEPT ![k] = Absent]

EmptyDict ==
    [kind |-> "dict", name |-> Absent, sarvam_api_key |-> Absent, llm_api_key |-> Absent,
     stt_language_code |-> Absent, tts_language_code |-> Absent,
     system_prompt |-> Absent, tts_voice |-> Absent, llm_model |-> Absent,
     welcome_message |-> Absent]

NoneValue == [EmptyDict EXCEPT !.kind = "None"]
ListValue == [EmptyDict EXCEPT !.kind = "list"]

\* The response bodies the backend may send (decoded JSON values).
Bodies ==
    {[FullDict EXCEPT !.tts_voice = v] : v \in VoiceCatalog \cup {"robo"}}
        \cup {Without(FullDict, k) : k \in ConfigKeys}
        \cup {EmptyDict, ListValue, NoneValue}

\* A non-2xx response may carry any body, also one that decodes to a config.
Responses ==
    {[status |-> "network_error", wellFormed |-> FALSE, value |-> NoneValue],
     [status |-> "non2xx", wellFormed |-> TRUE, value |-> EmptyDict],
     [status |-> "non2xx", wellFormed |-> TRUE, value |-> FullDict],
     [status |-> "2xx", wellFormed |-> FALSE, value |-> NoneValue]}
        \cup {[status |-> "2xx", wellFormed |-> TRUE, value |-> b] : b \in Bodies}

\* bool(config)
ConfigTruthy(c) ==
    \/ c.kind = "list"
    \/ c.kind = "dict" /\ \E k \in ConfigKeys : c[k] # Absent

\* config.get(key) in place of config[key]: a missing key raises nothing.
SubscriptLenient(c, k) == IF c.kind # "dict" THEN "TypeError" ELSE None

\* config[key]: the exception it raises, None when the key is there
Subscript(c, k) ==
    IF c.kind # "dict" THEN "TypeError"
    ELSE IF c[k] = Absent THEN "KeyError"
    ELSE None

\* No response received yet
NoResponse == [status |-> "none", wellFormed |-> FALSE, value |-> NoneValue]

\* RaiseInTry as it would be without the finally clause.
RaiseInTryNoFinally(e) == [pc |-> "FAILED", exc |-> e]

\* An exception raised inside the try statement of lines 110-135 transfers
\* control to the finally block; one raised elsewhere in voice_agent_session
\* leaves the coroutine at once.
RaiseInTry(e) == [pc |-> "ENDING", exc |-> e]

\* RaiseOutsideTry as it would be if the try statement began at line 57.
RaiseIntoFinally(e) == [pc |-> "ENDING", exc |-> e]

RaiseOutsideTry(e) == [pc |-> "FAILED", exc |-> e]

\* An outbound HTTP request
Request(method, route, id) == [method |-> method, route |-> route, id |-> id]

\* fetch_agent_config as it would be without raise_for_status: the body of
\* a non-2xx response is decoded and returned.
fetch_agent_config_unchecked(aid, resp) ==
    LET sent == <<Request("GET", "config", aid)>>
    IN  IF resp.status = "network_error" \/ ~resp.wellFormed
        THEN [ret |-> NoneValue, raised |-> None, logged |-> TRUE, sent |-> sent]
        ELSE [ret |-> resp.value, raised |-> None, logged |-> FALSE, sent |-> sent]

\* fetch_agent_config as it would be with an except clause that catches
\* only httpx errors: the decoding error of response.json() escapes.
fetch_agent_config_narrow(aid, resp) ==
    LET sent == <<Request("GET", "config", aid)>>
    IN  IF resp.status # "2xx"
        THEN [ret |-> NoneValue, raised |-> None, logged |-> TRUE, sent |-> sent]
        ELSE IF ~resp.wellFormed
        THEN [ret |-> NoneValue, raised |-> "JSONDecodeError", logged |-> FALSE,
              sent |-> sent]
        ELSE [ret |-> resp.value, raised |-> None, logged |-> FALSE, sent |-> sent]

\* fetch_agent_config (lines 24-35): one GET; a transport error, a non-2xx
\* status (raise_for_status) and an undecodable body (response.json) all
\* raise inside the try, are logged and become None.
fetch_agent_config(aid, resp) ==
    LET sent == <<Request("GET", "config", aid)>>
    IN  IF resp.status = "network_error"
        THEN [ret |-> NoneValue, raised |-> None, logged |-> TRUE, sent |-> sent]
        ELSE IF resp.status # "2xx"
        THEN [ret |-> NoneValue, raised |-> None, logged |-> TRUE, sent |-> sent]
        ELSE IF ~resp.wellFormed
        THEN [ret |-> NoneValue, raised |-> None, logged |-> TRUE, sent |-> sent]
        ELSE [ret |-> resp.value, raised |-> None, logged |-> FALSE, sent |-> sent]

\* end_session as it would be with one retry after a failed request.
end_session_retrying(sid, ok) ==
    [sent |-> IF ok THEN <<Request("PATCH", "end", sid)>>
              ELSE <<Request("PATCH", "end", sid), Request("PATCH", "end", sid)>>,
     raised |-> None,
     logged |-> IF ok THEN "session_end_ok" ELSE "session_end_failed"]

\* end_session as it would be without its try/except.
end_session_raising(sid, ok) ==
    [sent |-> <<Request("PATCH", "end", sid)>>,
     raised |-> IF ok THEN None ELSE "ConnectError",
     logged |-> "session_end_ok"]

\* end_session (lines 37-46): one PATCH; any Exception is logged as a
\* warning and swallowed.
end_session(sid, ok) ==
    [sent |-> <<Request("PATCH", "end", sid)>>,
     raised |-> None,
     logged |-> IF ok THEN "session_end_ok" ELSE "session_end_failed"]

\* The speaker taken from the config as it is, without the fallback.
ResolveSpeakerNoFallback(c) ==
    [voice |-> DictGet(c, "tts_voice", DefaultVoice), warned |-> FALSE]

\* lines 83-86: the speaker fallback
ResolveSpeaker(c) ==
    LET v == DictGet(c, "tts_voice", DefaultVoice)
    IN  IF v \notin VoiceCatalog
        THEN [voice |-> DefaultVoice, warned |-> TRUE]
        ELSE [voice |-> v, warned |-> FALSE]

\* lines 89-107: the constructor calls in evaluation order, each with the
\* config keys its arguments subscript.
EngineSteps ==
    <<[kind |-> "STT", keys |-> {"sarvam_api_key", "stt_language_code"}],
      [kind |-> "LLM", keys |-> {"llm_api_key"}],
      [kind |-> "TTS", keys |-> {"sarvam_api_key", "tts_language_code"}],
      [kind |-> "VAD", keys |-> {}],
      [kind |-> "MultilingualModel", keys |-> {}],
      [kind |-> "AgentSession", keys |-> {}]>>

NoFault == Len(EngineSteps) + 1
Faults == 1..NoFault

EngineArg(c, voice, kind) ==
    CASE kind = "STT" -> c.stt_language_code
      [] kind = "LLM" -> DictGet(c, "llm_model", DefaultModel)
      [] kind = "TTS" -> voice
      [] OTHER -> None

MissingKey(c, k) == \E key \in EngineSteps[k].keys : c[key] = Absent

\* The first constructor call that does not complete: a missing key raises
\* KeyError while its arguments are evaluated, or the constructor itself
\* raises (fault); NoFault when all six complete.
FirstFailure(c, fault) ==
    LET bad == {k \in 1..Len(EngineSteps) : MissingKey(c, k) \/ k = fault}
    IN  IF bad = {} THEN NoFault
        ELSE CHOOSE k \in bad : \A j \in bad : k <= j

Assemble(c, voice, fault) ==
    LET f == FirstFailure(c, fault)
    IN  [engines |-> [k \in 1..(f - 1) |->
                        [kind |-> EngineSteps[k].kind,
                         arg |-> EngineArg(c, voice, EngineSteps[k].kind)]],
         raised |-> IF f = NoFault THEN None
                    ELSE IF MissingKey(c, f) THEN "KeyError"
                    ELSE "EngineError"]

\* line 122: the payload handed to publish_data
TranscriptMessage(role, text) == [type |-> "transcript", role |-> role, text |-> text]

Roles == {"user", "agent"}
EventOf(role) == IF role = "user" THEN "user_transcript" ELSE "agent_transcript"
Texts == {"hi"}

-----------------------------------------------------------------------------
VARIABLES
    pc,            \* position of voice_agent_session
    metadata_raw,  \* line 60
    agent_id,      \* line 64
    session_id,    \* lines 61, 65
    response,      \* line 30
    config,        \* line 75
    tts_voice,     \* lines 83-86
    engines,       \* engine instances constructed so far, in order (89-107)
    started,       \* session.start has completed
    handlers,      \* events with a registered transcript handler
    greeting,      \* instructions passed to generate_reply
    connected,     \* ctx.room.connection_state = CONN_CONNECTED
    emitted,       \* transcript events emitted by the pipeline, in order
    tasks,         \* publish tasks created by on_transcript, in creation order
    published,     \* indices of tasks, in the order their message went out
    exc,           \* exception raised by the coroutine, None when there is none
    requests,      \* outbound HTTP requests, in order
    log            \* log records, in order

vars == <<pc, metadata_raw, agent_id, session_id, response, config, tts_voice, engines,
          started, handlers, greeting, connected, emitted, tasks, published, exc,
          requests, log>>

Init ==
    /\ pc = "PARSING_METADATA"
    /\ metadata_raw = RawEmpty
    /\ agent_id = None
    /\ session_id = None
    /\ response = NoResponse
    /\ config = NoneValue
    /\ tts_voice = None
    /\ engines = <<>>
    /\ started = FALSE
    /\ handlers = {}
    /\ greeting = None
    /\ connected = FALSE
    /\ emitted = <<>>
    /\ tasks = <<>>
    /\ published = <<>>
    /\ exc = None
    /\ requests = <<>>
    /\ log = <<>>

\* lines 57-72
ParseMetadata ==
    /\ pc = "PARSING_METADATA"
    /\ \E room \in RoomMetadata, job \in JobMetadata :
        LET raw == MetadataRaw(room, job)
            parsed == JsonLoads(raw)
            aid == DictGet(parsed.obj, "agentId", None)
            sid == DictGet(parsed.obj, "sessionId", None)
        IN  /\ metadata_raw' = raw
            /\ IF parsed.err # None
               THEN /\ pc' = "ABORTED"
                    /\ log' = log \o <<"starting", "invalid_metadata">>
                    /\ UNCHANGED <<agent_id, session_id, exc>>
               ELSE IF ~parsed.isDict
               THEN /\ pc' = RaiseOutsideTry("AttributeError").pc
                    /\ exc' = RaiseOutsideTry("AttributeError").exc
                    /\ log' = Append(log, "starting")
                    /\ UNCHANGED <<agent_id, session_id>>
               ELSE /\ agent_id' = aid
                    /\ session_id' = sid
                    /\ exc' = exc
                    /\ IF Truthy(aid)
                       THEN pc' = "RESOLVING_CONFIG" /\ log' = Append(log, "starting")
                       ELSE pc' = "ABORTED" /\ log' = log \o <<"starting", "no_agent_id">>
    /\ UNCHANGED <<response, config, tts_voice, engines, started, handlers, greeting,
                   connected, tasks, published, requests,
                   emitted>>

\* lines 74-80, with the call of fetch_agent_config
ResolveConfig ==
    /\ pc = "RESOLVING_CONFIG"
    /\ \E resp \in Responses :
        LET r == fetch_agent_config(agent_id, resp)
            log1 == IF r.logged THEN Append(log, "fetch_failed") ELSE log
            sub == Subscript(r.ret, "name")
        IN  /\ requests' = requests \o r.sent
            /\ response' = resp
            /\ IF r.raised # None
               THEN /\ pc' = RaiseOutsideTry(r.raised).pc
                    /\ exc' = RaiseOutsideTry(r.raised).exc
                    /\ log' = log1
                    /\ config' = config
               ELSE /\ config' = r.ret
                    /\ IF ~ConfigTruthy(r.ret)
                       THEN /\ pc' = "ABORTED"
                            /\ log' = Append(log1, "config_unavailable")
                            /\ exc' = exc
                       ELSE IF sub # None
                       THEN /\ pc' = RaiseOutsideTry(sub).pc
                            /\ exc' = RaiseOutsideTry(sub).exc
                            /\ log' = log1
                       ELSE /\ pc' = "ASSEMBLING_PIPELINE"
                            /\ log' = Append(log1, "config_loaded")
                            /\ exc' = exc
    /\ UNCHANGED <<metadata_raw, agent_id, session_id, tts_voice, engines, started,
                   handlers, greeting, connected, tasks, published,
                   emitted>>

\* lines 82-107: speaker fallback and construction of the engines and the
\* AgentSession; this code is before the try statement of line 110.
AssemblePipeline ==
    /\ pc = "ASSEMBLING_PIPELINE"
    /\ \E fault \in Faults :
        LET sp == ResolveSpeaker(config)
            a == Assemble(config, sp.voice, fault)
        IN  /\ tts_voice' = sp.voice
            /\ log' = IF sp.warned THEN Append(log, "speaker_fallback") ELSE log
            /\ engines' = a.engines
            /\ IF a.raised # None
               THEN /\ pc' = RaiseOutsideTry(a.raised).pc
                    /\ exc' = RaiseOutsideTry(a.raised).exc
               ELSE pc' = "START" /\ exc' = exc
    /\ UNCHANGED <<metadata_raw, agent_id, session_id, response, config, started, handlers,
                   greeting, connected, tasks, published, requests,
                   emitted>>

\* lines 110-117 up to the await: the arguments of session.start are
\* evaluated inside the try.
StartSession ==
    /\ pc = "START"
    /\ IF Subscript(config, "system_prompt") # None
       THEN /\ pc' = RaiseInTry(Subscript(config, "system_prompt")).pc
            /\ exc' = RaiseInTry(Subscript(config, "system_prompt")).exc
       ELSE pc' = "STARTING" /\ exc' = exc
    /\ UNCHANGED <<metadata_raw, agent_id, session_id, response, config, tts_voice, engines,
                   started, handlers, greeting, connected, tasks, published,
                   requests, log,
                   emitted>>

\* line 111: session.start returns or raises
StartReturns ==
    /\ pc = "STARTING"
    /\ \E ok \in BOOLEAN :
        IF ok
        THEN /\ pc' = "REGISTER"
             /\ started' = TRUE
             /\ connected' = TRUE
             /\ exc' = exc
        ELSE /\ pc' = RaiseInTry("StartError").pc
             /\ exc' = RaiseInTry("StartError").exc
             /\ UNCHANGED <<started, connected>>
    /\ UNCHANGED <<metadata_raw, agent_id, session_id, response, config, tts_voice, engines,
                   handlers, greeting, tasks, published, requests, log,
                   emitted>>

\* lines 120-130 up to the await: the two session.on calls, then the call
\* of generate_reply.  registered is the number of session.on calls that
\* complete before one raises.
RegisterAndGreet ==
    /\ pc = "REGISTER"
    /\ \E registered \in 0..2 :
        /\ handlers' = CASE registered = 0 -> {}
                         [] registered = 1 -> {"user_transcript"}
                         [] OTHER -> {"user_transcript", "agent_transcript"}
        /\ IF registered < 2
           THEN /\ pc' = RaiseInTry("RegisterError").pc
                /\ exc' = RaiseInTry("RegisterError").exc
                /\ greeting' = greeting
           ELSE /\ pc' = "GREET"
                /\ exc' = exc
                /\ greeting' = DictGet(config, "welcome_message", DefaultWelcome)
    /\ UNCHANGED <<metadata_raw, agent_id, session_id, response, config, tts_voice, engines,
                   started, connected, tasks, published, requests, log,
                   emitted>>

\* line 130: generate_reply returns or raises
GreetReturns ==
    /\ pc = "GREET"
    /\ \E ok \in BOOLEAN :
        IF ok THEN pc' = "POLL" /\ exc' = exc
        ELSE pc' = RaiseInTry("GreetError").pc /\ exc' = RaiseInTry("GreetError").exc
    /\ UNCHANGED <<metadata_raw, agent_id, session_id, response, config, tts_voice, engines,
                   started, handlers, greeting, connected, tasks, published,
                   requests, log,
                   emitted>>

\* The loop of line 132 as it would be with the condition "while True".
LoopForever(conn) == "SLEEP"

\* line 132: while connection_state == CONN_CONNECTED; when the condition
\* is false the try block completes and the finally block runs.
LoopCondition(conn) == IF conn THEN "SLEEP" ELSE "ENDING"

\* line 132: the loop condition
Poll ==
    /\ pc = "POLL"
    /\ pc' = LoopCondition(connected)
    /\ UNCHANGED <<metadata_raw, agent_id, session_id, response, config, tts_voice, engines,
                   started, handlers, greeting, connected, tasks, published, exc,
                   requests, log,
                   emitted>>

\* line 133: asyncio.sleep(1) returns or raises
Wake ==
    /\ pc = "SLEEP"
    /\ \E ok \in BOOLEAN :
        IF ok THEN pc' = "POLL" /\ exc' = exc
        ELSE pc' = RaiseInTry("PollError").pc /\ exc' = RaiseInTry("PollError").exc
    /\ UNCHANGED <<metadata_raw, agent_id, session_id, response, config, tts_voice, engines,
                   started, handlers, greeting, connected, tasks, published,
                   requests, log,
                   emitted>>

\* The transport loses the room connection.
Disconnect ==
    /\ connected
    /\ connected' = FALSE
    /\ UNCHANGED <<pc, metadata_raw, agent_id, session_id, response, config, tts_voice,
                   engines, started, handlers, greeting, tasks, published, exc,
                   requests, log,
                   emitted>>

\* lines 135-138: the finally block, with the call of end_session; an
\* exception raised in the try propagates after it (exc is kept).
Ending ==
    /\ pc = "ENDING"
    /\ IF Truthy(session_id)
       THEN \E ok \in BOOLEAN :
               LET r == end_session(session_id, ok)
               IN  /\ requests' = requests \o r.sent
                   /\ IF r.raised # None
                      THEN /\ pc' = RaiseOutsideTry(r.raised).pc
                           /\ exc' = RaiseOutsideTry(r.raised).exc
                           /\ log' = log
                      ELSE /\ pc' = "TERMINATED"
                           /\ exc' = exc
                           /\ log' = log \o <<r.logged, "finished">>
       ELSE /\ pc' = "TERMINATED"
            /\ log' = Append(log, "finished")
            /\ UNCHANGED <<requests, exc>>
    /\ UNCHANGED <<metadata_raw, agent_id, session_id, response, config, tts_voice, engines,
                   started, handlers, greeting, connected, tasks, published,
                   emitted>>

\* LoopFree as it would be if the tasks of a session were cancelled when
\* its coroutine finishes.
LoopFreeWhileRunning == pc \in {"GREET", "SLEEP"}

\* The coroutine is suspended at an await, or has finished: the event loop
\* is free to run callbacks and tasks.
LoopFree == pc \in {"GREET", "SLEEP", "TERMINATED", "FAILED"}

\* lines 120-127: the pipeline emits a transcript event; the registered
\* lambda calls on_transcript, which creates one publish task.
on_transcript(role, text) ==
    Append(tasks, [msg |-> TranscriptMessage(role, text), status |-> "pending"])

\* The handlers as they would be if both lambdas passed "user".
HandlerSameRole(event, text) == on_transcript("user", text)

\* lines 126-127: the lambda registered for each event
Handler(event, text) ==
    IF event = "user_transcript" THEN on_transcript("user", text)
    ELSE on_transcript("agent", text)

TranscriptEvent ==
    /\ LoopFree
    /\ started
    /\ Len(tasks) < MaxEvents
    /\ \E event \in handlers, text \in Texts :
        /\ emitted' = Append(emitted, [event |-> event, text |-> text])
        /\ tasks' = Handler(event, text)
    /\ UNCHANGED <<pc, metadata_raw, agent_id, session_id, response, config, tts_voice,
                   engines, started, handlers, greeting, connected, published, exc,
                   requests, log>>

\* The pending publish tasks that may run next: asyncio tasks are
\* independent, nothing in on_transcript chains one to another.
Runnable == {i \in 1..Len(tasks) : tasks[i].status = "pending"}

\* A publish_data task completes: the message goes out on the data channel.
PublishDone ==
    /\ LoopFree
    /\ \E i \in Runnable :
        /\ tasks' = [tasks EXCEPT ![i].status = "done"]
        /\ published' = Append(published, i)
    /\ UNCHANGED <<pc, metadata_raw, agent_id, session_id, response, config, tts_voice,
                   engines, started, handlers, greeting, connected, exc, requests,
                   log,
                   emitted>>

\* The effect a failed publish would have if publish_data were awaited in
\* the session coroutine instead of in a task of its own.
PublishFailureAwaited(i) ==
    IF pc \in {"GREET", "SLEEP"} THEN RaiseInTry("PublishError")
    ELSE [pc |-> pc, exc |-> exc]

\* The effect of a failed publish task on the session coroutine: the
\* exception stays in the task object, which nobody awaits.
PublishFailure(i) == [pc |-> pc, exc |-> exc]

\* A publish_data task raises.
PublishFail ==
    /\ LoopFree
    /\ \E i \in Runnable :
        /\ tasks' = [tasks EXCEPT ![i].status = "failed"]
        /\ pc' = PublishFailure(i).pc
        /\ exc' = PublishFailure(i).exc
    /\ UNCHANGED <<metadata_raw, agent_id, session_id, response, config, tts_voice, engines,
                   started, handlers, greeting, connected, published, requests,
                   log,
                   emitted>>

Next ==
    \/ ParseMetadata
    \/ ResolveConfig
    \/ AssemblePipeline
    \/ StartSession
    \/ StartReturns
    \/ RegisterAndGreet
    \/ GreetReturns
    \/ Poll
    \/ Wake
    \/ Disconnect
    \/ Ending
    \/ TranscriptEvent
    \/ PublishDone
    \/ PublishFail

Spec == Init /\ [][Next]_vars

\* The scheduling the code relies on: asyncio.sleep(1) returns, the loop
\* condition is evaluated when it has, and the finally block, whose only
\* await is a request with the timeout of the HTTP client, completes.
FairSpec == Spec /\ WF_vars(Poll) /\ WF_vars(Wake) /\ WF_vars(Ending)

-----------------------------------------------------------------------------
(* Properties                                                               *)

Range(seq) == {seq[i] : i \in DOMAIN seq}
Logged(tag) == tag \in Range(log)
Calls(reqs, method) == Cardinality({i \in DOMAIN reqs : reqs[i].method = method})
EndCalls == Calls(requests, "PATCH")
GetCalls == Calls(requests, "GET")

\* The coroutine has finished: by an early return, by an exception raised
\* before the try statement, or after the finally block.
Finished == pc \in {"ABORTED", "FAILED", "TERMINATED"}

\* AssemblePipeline has run (it is the only action that assigns tts_voice).
Assembled == tts_voice # None

\* The metadata has a sessionId that the finally block accepts.
HasSessionId == session_id \notin {None, "", Absent}

\* The exceptions raised while the session is active.
ActiveErrors == {"StartError", "RegisterError", "GreetError", "PollError"}

\* The fetch did not produce a config: transport error, non-2xx status,
\* undecodable body.
FetchFailed(r) == r.status \in {"network_error", "non2xx"} \/ (r.status = "2xx" /\ ~r.wellFormed)

\* C1: every session that got as far as assembling the pipeline with a
\* sessionId in its metadata has made exactly one end-notification by the
\* time it has finished, whichever way it finished.
C1_NotifiedOnEveryPath ==
    (Finished /\ Assembled /\ HasSessionId) => EndCalls = 1

\* C2: the number of end-notification requests of a session never exceeds
\* one, a failed request included.
C2_AtMostOneNotification == EndCalls <= 1

C2_Witness ==
    pc = "TERMINATED" /\ Logged("session_end_failed") /\ EndCalls = 1

C4_FetchFailureAborts ==
    (response # NoResponse
        /\ (FetchFailed(response) \/ response.value \in {EmptyDict, NoneValue})) =>
            /\ pc = "ABORTED"
            /\ EndCalls = 0
            /\ ~Assembled
            /\ engines = <<>>
            /\ ~started

C4_Witness ==
    /\ pc = "ABORTED"
    /\ response.status = "non2xx"
    /\ session_id = "s1"
    /\ EndCalls = 0

\* C5: an exception raised while the session is active takes the coroutine
\* to the finally block; when the session has terminated the termination is
\* logged and, with a sessionId, exactly one end-notification was made.
C5_ActiveFailureEnds ==
    exc \in ActiveErrors =>
        /\ pc \in {"ENDING", "TERMINATED"}
        /\ pc = "TERMINATED" =>
              /\ log[Len(log)] = "finished"
              /\ EndCalls = IF HasSessionId THEN 1 ELSE 0

C5_Witness ==
    /\ pc = "TERMINATED"
    /\ exc = "PollError"
    /\ EndCalls = 1
    /\ Logged("finished")

\* C6: the finally block always completes: whether the end-notification
\* succeeds or fails, the session terminates, the termination is logged,
\* the pending exception is the one of the try block and one request at
\* most was made.
C6_NotifyFailureSwallowed ==
    [][(pc = "ENDING" /\ pc' # "ENDING") =>
          /\ pc' = "TERMINATED"
          /\ exc' = exc
          /\ log'[Len(log')] = "finished"
          /\ Calls(requests', "PATCH") = IF HasSessionId THEN 1 ELSE 0]_vars

C6_Witness ==
    /\ pc = "TERMINATED"
    /\ exc = None
    /\ Logged("session_end_failed")
    /\ Logged("finished")
    /\ ~connected

\* C7: the speaker is tts_voice when that is in the catalog and "anushka"
\* otherwise; the warning is logged exactly when tts_voice is present and
\* outside the catalog; the TTS engine is built with that speaker, and with
\* the required keys present and no constructor error all six instances are
\* built.
C7_SpeakerFallback ==
    Assembled =>
        LET v == config.tts_voice
            expected == IF v \in VoiceCatalog THEN v ELSE "anushka"
        IN  /\ tts_voice = expected
            /\ tts_voice \in VoiceCatalog
            /\ Logged("speaker_fallback") <=> (v # Absent /\ v \notin VoiceCatalog)
            /\ \A k \in DOMAIN engines :
                  engines[k].kind = "TTS" => engines[k].arg = expected
            /\ pc # "ABORTED"
            /\ ((\A k \in RequiredKeys : config[k] # Absent) /\ exc # "EngineError")
                  => (pc # "FAILED" /\ Len(engines) = Len(EngineSteps))

C7_Witness ==
    /\ pc = "START"
    /\ config.tts_voice = "robo"
    /\ Len(engines) = Len(EngineSteps)
    /\ engines[3] = [kind |-> "TTS", arg |-> "anushka"]
    /\ Logged("speaker_fallback")

\* C8: a session sends one config request at most; a transport error, a
\* non-2xx status and an undecodable body leave the session in the same
\* state: config None, aborted, no exception, the same log, one request.
C8_FetchCollapses ==
    /\ GetCalls <= 1
    /\ response # NoResponse => GetCalls = 1
    /\ (response # NoResponse /\ FetchFailed(response)) =>
          /\ config = NoneValue
          /\ pc = "ABORTED"
          /\ exc = None
          /\ log = <<"starting", "fetch_failed", "config_unavailable">>
          /\ Len(requests) = 1

C8_Witness ==
    /\ pc = "ABORTED"
    /\ response.status = "2xx"
    /\ ~response.wellFormed
    /\ config = NoneValue
    /\ GetCalls = 1

\* C9: a step in which a publish task fails changes nothing of the session
\* coroutine and of the other tasks, and while the session is active a
\* transcript event can still be taken after a task has failed.
C9_PublishFailureIsolated ==
    /\ [][(\E i \in DOMAIN tasks :
              tasks[i].status = "pending" /\ tasks'[i].status = "failed") =>
            /\ pc' = pc
            /\ exc' = exc
            /\ handlers' = handlers
            /\ started' = started
            /\ Len(tasks') = Len(tasks)
            /\ published' = published]_vars
    /\ []((/\ \E i \in DOMAIN tasks : tasks[i].status = "failed"
           /\ pc \in {"GREET", "SLEEP"}
           /\ Len(tasks) < MaxEvents) => ENABLED TranscriptEvent)

C9_Witness ==
    /\ pc = "SLEEP"
    /\ Len(tasks) = 2
    /\ tasks[1].status = "failed"
    /\ tasks[2].status = "done"
    /\ exc = None

\* C10: the messages of one stream go out in the order of their events.
C10_OrderedPerStream ==
    \A p, q \in DOMAIN published :
        (p < q /\ tasks[published[p]].msg.role = tasks[published[q]].msg.role)
            => published[p] < published[q]

\* C11: from the idle-wait loop, once the transport is disconnected the
\* session eventually terminates, with one end-notification when there is
\* a sessionId and none otherwise; the loop is left without an exception
\* only when the transport is disconnected, and no end-notification is made
\* while the session is in the loop.
InIdleLoop == pc \in {"POLL", "SLEEP"}

C11_DisconnectEndsSession ==
    /\ (InIdleLoop /\ ~connected) ~>
          (pc = "TERMINATED" /\ EndCalls = IF HasSessionId THEN 1 ELSE 0)
    /\ [][(InIdleLoop /\ pc' \notin {"POLL", "SLEEP"}) =>
             (pc' = "ENDING" /\ (~connected \/ exc' = "PollError"))]_vars
    /\ [](InIdleLoop => (EndCalls = 0 /\ greeting # None))

C11_Witness ==
    /\ pc = "TERMINATED"
    /\ ~connected
    /\ exc = None
    /\ greeting # None
    /\ tasks = <<>>
    /\ session_id = "s1"
    /\ EndCalls = 1

\* The metadata was decoded and has a usable agentId and a sessionId.
ParseSucceeded ==
    /\ pc # "PARSING_METADATA"
    /\ metadata_raw.form = "object"
    /\ metadata_raw.obj.agentId \notin {Absent, ""}
    /\ metadata_raw.obj.sessionId \notin {Absent, ""}

\* C12: a session whose metadata was parsed successfully has made exactly
\* one end-notification when it has finished, wherever a later step failed.
C12_NotifiedAfterParse ==
    (Finished /\ ParseSucceeded) => EndCalls = 1

\* The keys that have no default and are read after the config was loaded.
PipelineKeys == RequiredKeys \ {"name"}

\* C13: from a config that lacks one of the required pipeline keys no engine
\* instance and no AgentSession is constructed, and the session ends with
\* the KeyError of the missing key.
C13_ValidatedBeforeBuild ==
    (/\ config.kind = "dict"
     /\ \E k \in PipelineKeys : config[k] = Absent
     /\ Assembled) =>
        /\ engines = <<>>
        /\ ~started
        /\ Finished => exc = "KeyError"

AllHandlers == {"user_transcript", "agent_transcript"}

\* C14: the steps of the active phase happen in the order of the code.
\* session.start completes only after the six instances were built; the
\* handlers are registered only after start has completed; the greeting is
\* issued only with both handlers registered, with welcome_message or the
\* default; the idle loop is entered only after the greeting; transcript
\* tasks and published messages exist only after start has completed; and
\* an end-notification is made only by a session that reached the
\* session.start statement of line 111 (it completed, it raised, or the
\* evaluation of its arguments raised).
C14_ActiveOrder ==
    /\ [](started => Len(engines) = Len(EngineSteps))
    /\ [](handlers # {} => started)
    /\ [](greeting # None =>
            /\ started
            /\ handlers = AllHandlers
            /\ greeting = IF config.welcome_message = Absent
                          THEN "Hello! How can I help you?"
                          ELSE config.welcome_message)
    /\ [](InIdleLoop => (greeting # None /\ exc = None))
    /\ []((tasks # <<>> \/ published # <<>>) => (started /\ handlers # {}))
    /\ [](EndCalls > 0 =>
            /\ pc = "TERMINATED"
            /\ Len(engines) = Len(EngineSteps)
            /\ (started \/ exc \in {"KeyError", "StartError"}))
    /\ [][(~started /\ started') =>
            (pc = "STARTING" /\ handlers' = {} /\ greeting' = None)]_vars
    /\ [][(handlers' # handlers) => (started /\ handlers = {} /\ greeting = None)]_vars
    /\ [][(greeting' # greeting) => (pc' = "GREET" /\ EndCalls = 0)]_vars

C14_Witness ==
    /\ pc = "SLEEP"
    /\ started
    /\ handlers = AllHandlers
    /\ config.welcome_message = Absent
    /\ greeting = "Hello! How can I help you?"
    /\ published # <<>>
    /\ EndCalls = 0

\* C15: the finally block neither cancels nor awaits the publish tasks.  It
\* can always run, whatever tasks are pending; it leaves every task as it
\* was; and a task that is pending when the session has finished can still
\* publish its message.
C15_TeardownIgnoresTasks ==
    /\ [](pc = "ENDING" => ENABLED Ending)
    /\ [][(pc = "ENDING" /\ pc' # "ENDING") =>
             (tasks' = tasks /\ published' = published)]_vars
    /\ []((pc = "TERMINATED" /\ Runnable # {}) => ENABLED PublishDone)

C15_Witness ==
    /\ pc = "TERMINATED"
    /\ EndCalls = 1
    /\ Len(tasks) = 2
    /\ tasks[1].status = "pending"
    /\ tasks[2].status = "done"

\* C16: every transcript event has exactly one publish task, in the order
\* of the events, whose message has type "transcript", the role of the
\* event's stream and the event's text; a task publishes at most once, the
\* published messages are those of the tasks that completed, and a failed
\* task stays failed: its message is never published.
StreamRole(event) ==
    CASE event = "user_transcript" -> "user"
      [] event = "agent_transcript" -> "agent"

C16_OneAttemptPerEvent ==
    /\ [](Len(tasks) = Len(emitted))
    /\ [](\A i \in DOMAIN tasks :
            tasks[i].msg = [type |-> "transcript",
                            role |-> StreamRole(emitted[i].event),
                            text |-> emitted[i].text])
    /\ [](\A p, q \in DOMAIN published : p # q => published[p] # published[q])
    /\ [](Range(published) = {i \in DOMAIN tasks : tasks[i].status = "done"})
    /\ [][\A i \in DOMAIN tasks :
            /\ tasks'[i].msg = tasks[i].msg
            /\ tasks[i].status # "pending" => tasks'[i].status = tasks[i].status]_vars

C16_Witness ==
    /\ Len(tasks) = 2
    /\ emitted[1] = [event |-> "agent_transcript", text |-> "hi"]
    /\ emitted[2] = [event |-> "user_transcript", text |-> "hi"]
    /\ tasks[1].status = "failed"
    /\ tasks[2].status = "done"
    /\ published = <<2>>

\* The metadata has no sessionId, or an empty one.
NoSessionId == metadata_raw.obj.sessionId \in {Absent, ""}

\* C18: every end-notification carries the sessionId of the metadata, which
\* is then present and not empty; without one no end-notification is made
\* on any path, and the finally block still completes and logs.
C18_NotifyOnlyParsedId ==
    /\ [](\A i \in DOMAIN requests :
            requests[i].method = "PATCH" =>
                /\ requests[i] = [method |-> "PATCH", route |-> "end",
                                  id |-> metadata_raw.obj.sessionId]
                /\ ~NoSessionId)
    /\ [](NoSessionId => EndCalls = 0)
    /\ [](pc = "TERMINATED" => log[Len(log)] = "finished")
    /\ [][(pc = "ENDING" /\ pc' # "ENDING" /\ NoSessionId) =>
            (pc' = "TERMINATED" /\ requests' = requests /\ exc' = exc)]_vars

C18_Witness ==
    /\ pc = "TERMINATED"
    /\ metadata_raw.obj.agentId = "a1"
    /\ metadata_raw.obj.sessionId = ""
    /\ exc = "GreetError"
    /\ EndCalls = 0
    /\ Logged("finished")

\* The keys subscripted while the engines are constructed (lines 92-103).
EngineKeys == {"sarvam_api_key", "llm_api_key", "stt_language_code", "tts_language_code"}

\* C19: a config that lacks a key of the engine constructors ends the
\* session by an exception before the try statement, with no
\* end-notification, also with a sessionId; a config that lacks only
\* system_prompt fails after the six instances were built, inside the try,
\* and the end-notification is made when there is a sessionId.
C19_MissingKeyDecides ==
    (Assembled /\ config.kind = "dict") =>
        /\ (\E k \in EngineKeys : config[k] = Absent) =>
              /\ pc = "FAILED"
              /\ exc \in {"KeyError", "EngineError"}
              /\ Len(engines) < 3
              /\ ~started
              /\ EndCalls = 0
        /\ (/\ \A k \in EngineKeys : config[k] # Absent
            /\ config.system_prompt = Absent
            /\ exc # "EngineError"
            /\ pc # "START") =>
              /\ pc \in {"ENDING", "TERMINATED"}
              /\ exc = "KeyError"
              /\ Len(engines) = Len(EngineSteps)
              /\ ~started
              /\ pc = "TERMINATED" => EndCalls = IF HasSessionId THEN 1 ELSE 0

C19_Witness ==
    /\ pc = "TERMINATED"
    /\ config.system_prompt = Absent
    /\ exc = "KeyError"
    /\ session_id = "s1"
    /\ EndCalls = 1
    /\ Len(engines) = Len(EngineSteps)

====
